---- MODULE Spec2Model ----
(***************************************************************************)
(* State-machine model of scripts/validate_test_result.py: one run of      *)
(* main(), from the argument vector and the environment to the process     *)
(* exit, with the structured-generation service as the only external       *)
(* collaborator.                                                           *)
(*                                                                         *)
(* Numbers are integers counted in tenths (10 is 1.0).  A JSON text is     *)
(* kept in abstract syntax: for an object, the sequence of its members in  *)
(* the order they are written (duplicate names allowed).  A Python dict is *)
(* a function from its keys to values.                                     *)
(***************************************************************************)
EXTENDS Integers, Sequences, FiniteSets, TLC

VARIABLES
    positionals,   \* number of positional arguments on the command line
    argKey,        \* value of --api-key (Optional[str])
    envKey,        \* value of OPENAI_API_KEY in os.environ (Optional[str])
    pc,            \* position of the run inside main()
    apiKey,        \* TestValidator.api_key
    client,        \* TRUE once TestValidator.client is built
    calls,         \* number of client.chat.completions.create invocations
    response,      \* response.choices[0].message.content of the reply
    exc,           \* the exception raised last (in flight while pc is *_raised)
    result,        \* the TestValidationResult returned by validate_test_result
    stdout,        \* lines printed on standard output
    stderr,        \* lines written on standard error
    exitCode       \* exit status of the process, NotExited while it runs

vars == <<positionals, argKey, envKey, pc, apiKey, client, calls, response,
          exc, result, stdout, stderr, exitCode>>

-----------------------------------------------------------------------------
(* Bounds of the model *)

\* how far, in tenths, a reply's numbers range below 0.0 and above 1.0
MaxExcess == 1
\* how many members a reply object carries beyond the result's fields
MaxExtraMembers == 1
\* how many positional arguments a command line carries beyond the three
MaxSurplusArgs == 1

-----------------------------------------------------------------------------
(* Python and JSON values *)

None == [some |-> FALSE, s |-> ""]
Some(s) == [some |-> TRUE, s |-> s]

\* bool(x) of an Optional[str]
StrTruthy(o) == o.some /\ o.s # ""

JBool(b) == [t |-> "bool", b |-> b, n |-> 0, s |-> ""]
JNum(n) == [t |-> "num", b |-> FALSE, n |-> n, s |-> ""]
JStr(s) == [t |-> "str", b |-> FALSE, n |-> 0, s |-> s]
JNull == [t |-> "null", b |-> FALSE, n |-> 0, s |-> ""]

\* bool(x) of a decoded JSON scalar
Truthy(v) ==
    CASE v.t = "bool" -> v.b
      [] v.t = "num" -> v.n # 0
      [] v.t = "str" -> v.s # ""
      [] OTHER -> FALSE

\* type(x).__name__ of a decoded JSON scalar
TypeName(v) ==
    CASE v.t = "bool" -> "bool"
      [] v.t = "num" -> "float"
      [] v.t = "str" -> "str"
      [] OTHER -> "NoneType"

\* the fields of TestValidationResult, in declaration order
Fields == <<"is_correct", "extracted_answer", "explanation", "confidence",
            "answer_location">>

FieldSet == {Fields[i] : i \in 1..Len(Fields)}

NotExited == 0 - 1

NoException == [cls |-> "", msg |-> ""]

NoResult == [f \in {} |-> JNull]

NoResponse == [kind |-> "unset", members |-> <<>>, items |-> <<>>]

\* the classes `except Exception` matches; SystemExit derives from
\* BaseException only
ExceptionClasses == {"ValueError", "TypeError", "JSONDecodeError",
                     "APIConnectionError", "AuthenticationError",
                     "RateLimitError"}

SystemExitClass == "SystemExit"

-----------------------------------------------------------------------------
(* JSON texts *)

JsonObject(members) == [kind |-> "object", members |-> members, items |-> <<>>]
JsonArray(items) == [kind |-> "array", members |-> <<>>, items |-> items]
JsonScalar(v) == [kind |-> "scalar", members |-> <<>>, items |-> <<v>>]
\* a text that is no JSON document
NotJson == [kind |-> "invalid", members |-> <<>>, items |-> <<>>]
\* message.content is None (the service refused, or sent no content)
NoContent == [kind |-> "none", members |-> <<>>, items |-> <<>>]

Member(name, value) == [name |-> name, value |-> value]

SeqsUpTo(S, n) == UNION {[1..k -> S] : k \in 0..n}

Reverse(seq) == [i \in 1..Len(seq) |-> seq[Len(seq) + 1 - i]]

\* seq without its d-th element (seq itself when d = 0)
Without(seq, d) ==
    IF d = 0 THEN seq
    ELSE [i \in 1..(Len(seq) - 1) |-> IF i < d THEN seq[i] ELSE seq[i + 1]]

\* the numbers a reply may carry, in tenths: the ends and the middle of the
\* schema's range 0..1, and up to MaxExcess tenths on either side of it
ReplyNumbers == ((0 - MaxExcess)..0) \cup {5} \cup (10..(10 + MaxExcess))

\* the values a reply may carry under each name
ReplyValues(name) ==
    CASE name = "is_correct" ->
            {JBool(TRUE), JBool(FALSE), JStr("false"), JNum(0), JNull}
      [] name = "extracted_answer" -> {JStr("12977.52")}
      [] name = "explanation" -> {JStr("values match")}
      [] name = "confidence" ->
            {JNum(n) : n \in ReplyNumbers} \cup {JStr("high")}
      [] name = "answer_location" -> {JStr("MachineAnswer field"), JNull}
      [] OTHER -> {JStr("unrequested")}

\* members a reply may carry after the result's fields: a name the schema
\* does not have, or a field's name once more
ExtraMembers == {Member("note", v) : v \in ReplyValues("note")}
                \cup {Member("confidence", JNum(5))}

FieldOrders == {Fields, Reverse(Fields)}

\* the result's fields written in order o with values f, the d-th left out
FieldMembers(o, f, d) ==
    Without([i \in 1..Len(o) |-> Member(o[i], f[o[i]])], d)

FieldValuations ==
    {[is_correct |-> a, extracted_answer |-> b, explanation |-> c,
      confidence |-> d, answer_location |-> e] :
        a \in ReplyValues("is_correct"),
        b \in ReplyValues("extracted_answer"),
        c \in ReplyValues("explanation"),
        d \in ReplyValues("confidence"),
        e \in ReplyValues("answer_location")}

ObjectReplies ==
    {JsonObject(FieldMembers(o, f, d) \o x) :
        o \in FieldOrders, f \in FieldValuations, d \in 0..Len(Fields),
        x \in SeqsUpTo(ExtraMembers, MaxExtraMembers)}

\* every message content the service may answer with: the reply is under
\* the service's control, not under this program's
ReplyContents ==
    ObjectReplies
    \cup {NoContent, NotJson, JsonArray(<<>>), JsonArray(<<JBool(TRUE)>>)}
    \cup {JsonScalar(v) : v \in {JBool(TRUE), JNum(10), JStr("true"), JNull}}

\* the exceptions client.chat.completions.create may raise
ServiceErrors ==
    {[cls |-> "APIConnectionError", msg |-> "Connection error."],
     [cls |-> "AuthenticationError",
      msg |-> "Error code: 401 - Incorrect API key provided"],
     [cls |-> "RateLimitError", msg |-> ""]}

-----------------------------------------------------------------------------
(* json.loads, the dataclass constructor, asdict and json.dumps *)

Raised(cls, msg) == [raised |-> TRUE, exc |-> [cls |-> cls, msg |-> msg]]
Returned(v) == [raised |-> FALSE, value |-> v]

Names(members) == {members[i].name : i \in DOMAIN members}

\* positions of the members that first write their name
FirstWrites(members) ==
    {i \in DOMAIN members : \A j \in 1..(i - 1) : members[j].name # members[i].name}

\* the r-th smallest of a set of positions
Nth(S, r) == CHOOSE i \in S : Cardinality({j \in S : j <= i}) = r

\* the value dict construction keeps for name k: the last one written
LastValue(members, k) ==
    LET last == CHOOSE i \in DOMAIN members :
                    /\ members[i].name = k
                    /\ \A j \in (i + 1)..Len(members) : members[j].name # k
    IN members[last].value

\* a Python dict: keys in insertion order, and the value of each key
PyDict(members) ==
    [type |-> "dict",
     keys |-> [r \in 1..Cardinality(FirstWrites(members)) |->
                    members[Nth(FirstWrites(members), r)].name],
     val |-> [k \in Names(members) |-> LastValue(members, k)]]

\* json.loads(content); a content that is no text at all is a TypeError
JsonLoads(content) ==
    CASE content.kind = "invalid" ->
            Raised("JSONDecodeError", "Expecting value: line 1 column 1 (char 0)")
      [] content.kind = "object" -> Returned(PyDict(content.members))
      [] content.kind = "array" ->
            Returned([type |-> "list", items |-> content.items])
      [] content.kind = "scalar" ->
            Returned([type |-> TypeName(content.items[1]), scalar |-> content.items[1]])
      [] OTHER ->
            Raised("TypeError",
                   "the JSON object must be str, bytes or bytearray, not NoneType")

\* 'a' / 'a' and 'b' / 'a', 'b', and 'c' of the missing-argument message
RECURSIVE QuotedList(_)
QuotedList(names) ==
    CASE Len(names) = 0 -> ""
      [] Len(names) = 1 -> "'" \o names[1] \o "'"
      [] Len(names) = 2 -> "'" \o names[1] \o "' and '" \o names[2] \o "'"
      [] OTHER -> "'" \o names[1] \o "', " \o
                  (IF Len(names) = 3
                   THEN "'" \o names[2] \o "', and '" \o names[3] \o "'"
                   ELSE QuotedList(Tail(names)))

\* a constructor that drops the keys it does not know instead of refusing
\* them: TestValidationResult(**{k: v for k, v in data.items() if k in fields})
NewTestValidationResultLenient(data) ==
    IF data.type # "dict"
    THEN Raised("TypeError",
                "__main__.TestValidationResult() argument after ** must be a mapping, not "
                \o data.type)
    ELSE LET keys == {data.keys[i] : i \in DOMAIN data.keys}
             missing == SelectSeq(Fields, LAMBDA k : k \notin keys)
         IN IF missing # <<>>
            THEN Raised("TypeError",
                        "TestValidationResult.__init__() missing "
                        \o ToString(Len(missing)) \o " required positional argument"
                        \o (IF Len(missing) = 1 THEN "" ELSE "s") \o ": "
                        \o QuotedList(missing))
            ELSE Returned([f \in FieldSet |-> data.val[f]])

\* TestValidationResult(**data): the generated __init__ binds the five
\* fields by keyword and checks no types
NewTestValidationResult(data) ==
    IF data.type # "dict"
    THEN Raised("TypeError",
                "__main__.TestValidationResult() argument after ** must be a mapping, not "
                \o data.type)
    ELSE LET keys == {data.keys[i] : i \in DOMAIN data.keys}
             unexpected == SelectSeq(data.keys, LAMBDA k : k \notin FieldSet)
             missing == SelectSeq(Fields, LAMBDA k : k \notin keys)
         IN CASE unexpected # <<>> ->
                    Raised("TypeError",
                           "TestValidationResult.__init__() got an unexpected keyword argument '"
                           \o unexpected[1] \o "'")
              [] missing # <<>> ->
                    Raised("TypeError",
                           "TestValidationResult.__init__() missing "
                           \o ToString(Len(missing)) \o " required positional argument"
                           \o (IF Len(missing) = 1 THEN "" ELSE "s") \o ": "
                           \o QuotedList(missing))
              [] OTHER -> Returned([f \in FieldSet |-> data.val[f]])

\* a hand-written dict in place of asdict, with bool(result.is_correct)
AsDictCoerced(r) ==
    [i \in 1..Len(Fields) |->
        Member(Fields[i],
               IF Fields[i] = "is_correct" THEN JBool(Truthy(r[Fields[i]]))
               ELSE r[Fields[i]])]

\* asdict(result): the fields in declaration order
AsDict(r) == [i \in 1..Len(Fields) |-> Member(Fields[i], r[Fields[i]])]

\* json.dumps of a dict given as its items in order
JsonDumps(items) == JsonObject(items)

-----------------------------------------------------------------------------
(* TestValidator and main *)

\* a bare `except:`, which matches SystemExit too
CatchesBaseException(cls) == TRUE

\* `except ValueError`, which matches it and json's JSONDecodeError only
CatchesValueError(cls) == cls \in {"ValueError", "JSONDecodeError"}

\* `except Exception`: the handler of validate_test_result and of main
CatchesException(cls) == cls \in ExceptionClasses

\* api_key or os.environ.get('OPENAI_API_KEY', 'sk-default'): a silent default
ResolveApiKeyWithDefault(explicit, env) ==
    IF StrTruthy(explicit) THEN explicit
    ELSE IF env.some THEN env ELSE Some("sk-default")

\* api_key if api_key is not None else os.environ.get('OPENAI_API_KEY')
ResolveApiKeyIfNotNone(explicit, env) == IF explicit.some THEN explicit ELSE env

\* api_key or os.environ.get('OPENAI_API_KEY')
ResolveApiKey(explicit, env) == IF StrTruthy(explicit) THEN explicit ELSE env

MissingKeyMessage ==
    "OpenAI API key not found. Set OPENAI_API_KEY environment variable."

\* the record validate_test_result returns from its handler
ValidationErrorResult(e) ==
    [is_correct |-> JBool(FALSE),
     extracted_answer |-> JStr("Error"),
     explanation |-> JStr("Validation failed due to error: " \o e.msg),
     confidence |-> JNum(0),
     answer_location |-> JStr("N/A")]

\* main's error dict with the answer_location left empty
MainErrorResultNoLocation(e) ==
    <<Member("is_correct", JBool(FALSE)),
      Member("extracted_answer", JStr("Error")),
      Member("explanation", JStr(e.msg)),
      Member("confidence", JNum(0)),
      Member("answer_location", JStr(""))>>

\* the dict main's handler prints, as its items in order
MainErrorResult(e) ==
    <<Member("is_correct", JBool(FALSE)),
      Member("extracted_answer", JStr("Error")),
      Member("explanation", JStr(e.msg)),
      Member("confidence", JNum(0)),
      Member("answer_location", JStr("N/A"))>>

\* 0 if result.is_correct else 1
ExitStatus(r) == IF Truthy(r.is_correct) THEN 0 ELSE 1

Init ==
    /\ positionals \in 2..(3 + MaxSurplusArgs)
    /\ argKey \in {None, Some(""), Some("sk-arg")}
    /\ envKey \in {None, Some(""), Some("sk-env")}
    /\ pc = "start"
    /\ apiKey = None
    /\ client = FALSE
    /\ calls = 0
    /\ response = NoResponse
    /\ exc = NoException
    /\ result = NoResult
    /\ stdout = <<>>
    /\ stderr = <<>>
    /\ exitCode = NotExited

\* parser.parse_args() with the three positionals
ParseArgs ==
    /\ pc = "start"
    /\ positionals = 3
    /\ pc' = "parsed"
    /\ UNCHANGED <<positionals, argKey, envKey, apiKey, client, calls, response,
                   exc, result, stdout, stderr, exitCode>>

\* parser.parse_args() with too few or too many positionals: argparse
\* prints its usage on standard error and exits with status 2
ParseArgsError ==
    /\ pc = "start"
    /\ positionals # 3
    /\ stderr' = Append(stderr, "usage: validate_test_result.py")
    /\ exitCode' = 2
    /\ pc' = "exited"
    /\ UNCHANGED <<positionals, argKey, envKey, apiKey, client, calls, response,
                   exc, result, stdout>>

\* TestValidator(api_key=args.api_key), a credential found; OpenAI(api_key=...)
\* builds the client from a non-empty key without raising and without a call
Construct ==
    /\ pc = "parsed"
    /\ StrTruthy(ResolveApiKey(argKey, envKey))
    /\ apiKey' = ResolveApiKey(argKey, envKey)
    /\ client' = TRUE
    /\ pc' = "constructed"
    /\ UNCHANGED <<positionals, argKey, envKey, calls, response, exc, result,
                   stdout, stderr, exitCode>>

\* TestValidator(api_key=args.api_key), no credential: ValueError, raised
\* before the client is built
ConstructFails ==
    /\ pc = "parsed"
    /\ ~StrTruthy(ResolveApiKey(argKey, envKey))
    /\ apiKey' = ResolveApiKey(argKey, envKey)
    /\ exc' = [cls |-> "ValueError", msg |-> MissingKeyMessage]
    /\ pc' = "main_raised"
    /\ UNCHANGED <<positionals, argKey, envKey, client, calls, response, result,
                   stdout, stderr, exitCode>>

\* client.chat.completions.create(...) returns a reply
CallReturns ==
    /\ pc = "constructed"
    /\ \E content \in ReplyContents : response' = content
    /\ calls' = calls + 1
    /\ pc' = "responded"
    /\ UNCHANGED <<positionals, argKey, envKey, apiKey, client, exc, result,
                   stdout, stderr, exitCode>>

\* client.chat.completions.create(...) raises
CallRaises ==
    /\ pc = "constructed"
    /\ \E e \in ServiceErrors : exc' = e
    /\ calls' = calls + 1
    /\ pc' = "validate_raised"
    /\ UNCHANGED <<positionals, argKey, envKey, apiKey, client, response, result,
                   stdout, stderr, exitCode>>

\* json.loads(content), then TestValidationResult(**result_data)
ParseOutcome(content) ==
    LET loaded == JsonLoads(content)
    IN IF loaded.raised THEN loaded ELSE NewTestValidationResult(loaded.value)

\* result_data = json.loads(...); return TestValidationResult(**result_data)
ParseReply ==
    /\ pc = "responded"
    /\ ~ParseOutcome(response).raised
    /\ result' = ParseOutcome(response).value
    /\ pc' = "validated"
    /\ UNCHANGED <<positionals, argKey, envKey, apiKey, client, calls, response,
                   exc, stdout, stderr, exitCode>>

\* json.loads(...) or TestValidationResult(**result_data) raises
ParseReplyRaises ==
    /\ pc = "responded"
    /\ ParseOutcome(response).raised
    /\ exc' = ParseOutcome(response).exc
    /\ pc' = "validate_raised"
    /\ UNCHANGED <<positionals, argKey, envKey, apiKey, client, calls, response,
                   result, stdout, stderr, exitCode>>

\* a handler that calls the service once more after a failed first call
ValidateExceptRetry ==
    /\ pc = "validate_raised"
    /\ IF calls < 2
       THEN /\ pc' = "constructed"
            /\ UNCHANGED <<stderr, result>>
       ELSE /\ stderr' = Append(stderr, "ERROR: Error during validation: " \o exc.msg)
            /\ result' = ValidationErrorResult(exc)
            /\ pc' = "validated"
    /\ UNCHANGED <<positionals, argKey, envKey, apiKey, client, calls, response,
                   exc, stdout, exitCode>>

\* the handler of validate_test_result: log, and return the error record; an
\* exception it does not match goes on to main
ValidateExcept ==
    /\ pc = "validate_raised"
    /\ IF CatchesException(exc.cls)
       THEN /\ stderr' = Append(stderr, "ERROR: Error during validation: " \o exc.msg)
            /\ result' = ValidationErrorResult(exc)
            /\ pc' = "validated"
       ELSE /\ pc' = "main_raised"
            /\ UNCHANGED <<stderr, result>>
    /\ UNCHANGED <<positionals, argKey, envKey, apiKey, client, calls, response,
                   exc, stdout, exitCode>>

\* print(json.dumps(asdict(result)))
PrintResult ==
    /\ pc = "validated"
    /\ stdout' = Append(stdout, JsonDumps(AsDict(result)))
    /\ pc' = "printed"
    /\ UNCHANGED <<positionals, argKey, envKey, apiKey, client, calls, response,
                   exc, result, stderr, exitCode>>

\* sys.exit(0 if result.is_correct else 1): SystemExit is raised inside the
\* try block of main, whose handler is asked first
Exit ==
    /\ pc = "printed"
    /\ IF CatchesException(SystemExitClass)
       THEN /\ exc' = [cls |-> SystemExitClass, msg |-> ToString(ExitStatus(result))]
            /\ pc' = "main_raised"
            /\ UNCHANGED exitCode
       ELSE /\ exitCode' = ExitStatus(result)
            /\ pc' = "exited"
            /\ UNCHANGED exc
    /\ UNCHANGED <<positionals, argKey, envKey, apiKey, client, calls, response,
                   result, stdout, stderr>>

\* the handler of main: log, print the error object and sys.exit(1); an
\* exception it does not match ends the process with a traceback
MainExcept ==
    /\ pc = "main_raised"
    /\ IF CatchesException(exc.cls)
       THEN /\ stderr' = Append(stderr, "ERROR: Fatal error: " \o exc.msg)
            /\ stdout' = Append(stdout, JsonDumps(MainErrorResult(exc)))
       ELSE /\ stderr' = Append(stderr, "Traceback (most recent call last):")
            /\ UNCHANGED stdout
    /\ exitCode' = 1
    /\ pc' = "exited"
    /\ UNCHANGED <<positionals, argKey, envKey, apiKey, client, calls, response,
                   exc, result>>

Next ==
    \/ ParseArgs
    \/ ParseArgsError
    \/ Construct
    \/ ConstructFails
    \/ CallReturns
    \/ CallRaises
    \/ ParseReply
    \/ ParseReplyRaises
    \/ ValidateExcept
    \/ PrintResult
    \/ Exit
    \/ MainExcept

Spec == Init /\ [][Next]_vars

\* the run is sequential and nothing in it waits: every step that can be
\* taken is taken
FairSpec == Spec /\ WF_vars(Next)

-----------------------------------------------------------------------------
(* Shape of the state *)

TypeOK ==
    /\ pc \in {"start", "parsed", "constructed", "responded", "validate_raised",
               "validated", "printed", "main_raised", "exited"}
    /\ calls \in 0..1
    /\ client \in BOOLEAN
    /\ exitCode \in {NotExited, 0, 1, 2}
    /\ Len(stdout) <= 1

-----------------------------------------------------------------------------
(* Vocabulary of the properties *)

ArgsParsed == positionals = 3

Done == pc = "exited"

\* validate_test_result has returned
HasResult == DOMAIN result # {}

\* t occurs in s
Contains(s, t) ==
    \E i \in 1..(Len(s) + 1) :
        /\ i + Len(t) - 1 <= Len(s)
        /\ SubSeq(s, i, i + Len(t) - 1) = t

MemberNames(line) == [i \in DOMAIN line.members |-> line.members[i].name]

\* the value written under name in a JSON object that has the name once
ValueOf(line, name) ==
    LET at == CHOOSE i \in DOMAIN line.members : line.members[i].name = name
    IN line.members[at].value

\* a line of standard output is a JSON object of the five keys, in order
FiveKeyObject(line) == line.kind = "object" /\ MemberNames(line) = Fields

\* the service call raised, or its reply is no JSON text
CallOrParseFailed ==
    calls = 1 /\ (response = NoResponse \/ response.kind \in {"invalid", "none"})

\* the reply is a JSON object of exactly the five keys, each written once
FiveKeyReply ==
    /\ response.kind = "object"
    /\ Len(response.members) = Len(Fields)
    /\ Names(response.members) = FieldSet

\* the reply is JSON, but no object of exactly the five keys
OffSchemaReply ==
    /\ response.kind \in {"object", "array", "scalar"}
    /\ ~(response.kind = "object" /\ Names(response.members) = FieldSet)

\* r carries the fixed values of an error record and the text of e
ErrorShaped(r, e) ==
    /\ r.is_correct = JBool(FALSE)
    /\ r.extracted_answer = JStr("Error")
    /\ r.explanation.t = "str" /\ Contains(r.explanation.s, e.msg)
    /\ r.confidence = JNum(0)
    /\ r.answer_location = JStr("N/A")

\* the five values of a five-key object, by name
ValuesOf(line) == [f \in FieldSet |-> ValueOf(line, f)]

-----------------------------------------------------------------------------
(* Properties *)

\* what C1 says of each state of a run whose arguments parse
OneJsonLine ==
    ArgsParsed =>
        /\ Len(stdout) <= 1
        /\ pc = "printed" => Len(stdout) = 1
        /\ Done => /\ Len(stdout) = 1
                   /\ FiveKeyObject(stdout[1])
                   /\ exitCode # NotExited

\* C1: a run whose arguments parse never has more than one line on standard
\* output, does exit, and has exited with exactly one line written, a JSON
\* object of the five keys is_correct, extracted_answer, explanation,
\* confidence, answer_location in that order; the exit after the print of
\* the success path adds no second object.
C1_OneJsonLine == []OneJsonLine /\ (ArgsParsed => <>Done)

C1_Witness ==
    /\ Done /\ ArgsParsed
    /\ HasResult /\ FiveKeyReply
    /\ exitCode = 0
    /\ Len(stdout) = 1

\* C2: a run whose arguments parse exits with 0 or 1, and with 0 exactly
\* when the is_correct written on standard output is the boolean true.
C2_ExitZeroIffTrue ==
    (Done /\ ArgsParsed) =>
        /\ exitCode \in {0, 1}
        /\ Len(stdout) = 1
        /\ exitCode = 0 <=> ValueOf(stdout[1], "is_correct") = JBool(TRUE)

\* C3: with no --api-key and no OPENAI_API_KEY the construction raises the
\* configuration error, no service call is ever made, and the run ends with
\* is_correct false, extracted_answer "Error", confidence 0.0 and status 1.
C3_MissingCredential ==
    (ArgsParsed /\ ~argKey.some /\ ~envKey.some) =>
        /\ calls = 0
        /\ ~client
        /\ pc \in {"start", "parsed", "main_raised", "exited"}
        /\ pc = "main_raised" => exc.cls = "ValueError"
        /\ Done => /\ Len(stdout) = 1
                   /\ ValueOf(stdout[1], "is_correct") = JBool(FALSE)
                   /\ ValueOf(stdout[1], "extracted_answer") = JStr("Error")
                   /\ ValueOf(stdout[1], "confidence") = JNum(0)
                   /\ exitCode = 1

C3_Witness ==
    /\ Done /\ ArgsParsed
    /\ ~argKey.some /\ ~envKey.some
    /\ exc.cls = "ValueError"
    /\ exitCode = 1

\* C4: an exception of the service call or of parsing its reply never
\* reaches main: validate_test_result returns is_correct false,
\* extracted_answer "Error", an explanation containing the error's text,
\* confidence 0.0 and answer_location "N/A", and the run exits with 1.
C4_FailureBecomesErrorResult ==
    /\ pc = "main_raised" => calls = 0
    /\ Done /\ calls = 1 => HasResult
    /\ (CallOrParseFailed /\ pc \notin {"responded", "validate_raised"}) =>
            /\ HasResult
            /\ ErrorShaped(result, exc)
            /\ Done => exitCode = 1

C4_Witness ==
    /\ Done
    /\ calls = 1 /\ response = NoResponse
    /\ exc.cls = "APIConnectionError"
    /\ result.explanation.s # exc.msg

\* C5: every object written on standard output has a boolean is_correct,
\* strings for extracted_answer, explanation and answer_location, and a
\* number within [0, 1] for confidence.
C5_EmittedTyped ==
    Len(stdout) >= 1 =>
        LET v == ValuesOf(stdout[1])
        IN /\ v.is_correct.t = "bool"
           /\ v.extracted_answer.t = "str"
           /\ v.explanation.t = "str"
           /\ v.answer_location.t = "str"
           /\ v.confidence.t = "num"
           /\ 0 <= v.confidence.n /\ v.confidence.n <= 10

\* C6: no call is made before the Validator is constructed, exactly one has
\* been made from the moment the call returns or raises until the process
\* exits, and none at all when the construction failed: never a second one.
C6_OneCall ==
    /\ pc \in {"start", "parsed", "constructed"} => calls = 0
    /\ pc \in {"responded", "validate_raised", "validated", "printed"} => calls = 1
    /\ HasResult => calls = 1
    /\ pc \in {"main_raised", "exited"} => calls = (IF client THEN 1 ELSE 0)

C6_Witness ==
    /\ Done
    /\ HasResult
    /\ exc.cls = "RateLimitError"
    /\ calls = 1

\* C7: when the construction fails, main writes the five fields with the
\* values of validate_test_result's error record for the same error
\* (is_correct false, extracted_answer "Error", confidence 0.0,
\* answer_location "N/A"), an explanation carrying the error's text, and
\* exits with 1.
C7_ConstructionFailureShape ==
    (Done /\ ArgsParsed /\ ~client) =>
        /\ Len(stdout) = 1
        /\ FiveKeyObject(stdout[1])
        /\ ErrorShaped(ValuesOf(stdout[1]), exc)
        /\ \A f \in FieldSet \ {"explanation"} :
                ValueOf(stdout[1], f) = ValidationErrorResult(exc)[f]
        /\ Contains(ValidationErrorResult(exc).explanation.s, exc.msg)
        /\ exitCode = 1

C7_Witness ==
    /\ Done /\ ArgsParsed
    /\ argKey = Some("") /\ envKey = Some("")
    /\ Len(stdout) = 1
    /\ ValueOf(stdout[1], "explanation") = JStr(MissingKeyMessage)

\* C8: once construction has been attempted, a non-empty --api-key is the
\* credential; otherwise a non-empty OPENAI_API_KEY is; and the construction
\* failed exactly when neither is there, an empty string counting as absent.
C8_CredentialResolution ==
    (ArgsParsed /\ pc \notin {"start", "parsed"}) =>
        LET explicit == argKey.some /\ argKey.s # ""
            fromEnv == envKey.some /\ envKey.s # ""
        IN /\ explicit => (client /\ apiKey = argKey)
           /\ (~explicit /\ fromEnv) => (client /\ apiKey = envKey)
           /\ ~client <=> (~explicit /\ ~fromEnv)
           /\ ~client => calls = 0

C8_Witness ==
    /\ pc = "constructed"
    /\ argKey = Some("") /\ envKey = Some("sk-env")
    /\ apiKey = Some("sk-env")

\* C9: for a reply that is a JSON object of exactly the five keys, the
\* result holds the reply's five values from its construction on, and the
\* object written on standard output holds the same five values.
C9_ReplyPassedThrough ==
    (FiveKeyReply /\ pc # "responded") =>
        /\ HasResult
        /\ \A f \in FieldSet : result[f] = ValueOf(response, f)
        /\ pc \in {"printed", "exited"} =>
                /\ Len(stdout) = 1
                /\ FiveKeyObject(stdout[1])
                /\ \A f \in FieldSet : ValueOf(stdout[1], f) = ValueOf(response, f)

C9_Witness ==
    /\ Done
    /\ FiveKeyReply
    /\ MemberNames(response) = Reverse(Fields)
    /\ ValueOf(stdout[1], "confidence") = JNum(11)
    /\ ValueOf(stdout[1], "is_correct") = JStr("false")

\* C10: a reply that is JSON but not an object of exactly the five keys
\* (a key missing, a key added, or no object at all) gives the fixed error
\* record, never a partial or extended result, and the run exits with 1.
C10_OffSchemaReplyIsError ==
    (OffSchemaReply /\ pc # "responded") =>
        /\ pc # "main_raised"
        /\ pc # "validate_raised" =>
                /\ DOMAIN result = FieldSet
                /\ ErrorShaped(result, exc)
        /\ Done => /\ exitCode = 1
                   /\ Len(stdout) = 1
                   /\ FiveKeyObject(stdout[1])
                   /\ ErrorShaped(ValuesOf(stdout[1]), exc)

C10_Witness ==
    /\ Done
    /\ response.kind = "object"
    /\ "note" \in Names(response.members)
    /\ Len(response.members) = Len(Fields)
    /\ exitCode = 1

====
